---- MODULE Spec2Model ----
(***************************************************************************)
(* A model of the AI sample sequencer:                                     *)
(*   - src/App.tsx               pattern, tempo, samples, generation       *)
(*   - src/components/Sequencer.tsx   the look-ahead step scheduler        *)
(*   - src/services/geminiService.ts  generateAudio and its session        *)
(*                                                                         *)
(* Time is counted in thirds of a millisecond, so that the step duration   *)
(* 60/bpm/4 s is a whole number for the tempos modelled (90, 120, 300);    *)
(* the floating-point sums of the code are modelled as exact sums.         *)
(* A React commit (handler, re-render, effect clean-up, effect) is one     *)
(* atomic action, as it is on the browser's single thread.                 *)
(***************************************************************************)
EXTENDS Integers, Sequences, FiniteSets, TLC

------------------------------------------------------------------------------
(* Bounds of the model *)

\* Spec observes the audio clock at 0, PollDelay, ..., MaxTicks * PollDelay
MaxTicks == 3
\* RunSpec observes it at 0, LongStep, ..., LongTicks * LongStep
LongTicks == 16

------------------------------------------------------------------------------
(* Program constants, in thirds of a millisecond where they are times *)

\* Sequencer.tsx:64   audioContext.currentTime + 0.1
Lookahead == 300
\* Sequencer.tsx:309  window.setTimeout(scheduler, 25.0)
PollDelay == 75
\* Sequencer.tsx:306  (stepRef.current + 1) % 16 ; App.tsx:122 Array(16)
NumSteps == 16
\* App.tsx:111  useState<number>(90)
InitialBpm == 90

\* the clock step of RunSpec: two poll delays (50 ms)
LongStep == 2 * PollDelay

\* App.tsx:352-358: the tempo slider (20..300); the tempos the model lets the
\* user pick
Tempos == {InitialBpm, 300}

\* Sequencer.tsx:302  secondsPerStep = 60.0 / bpm / 4.0
StepDuration(b) == 45000 \div b

------------------------------------------------------------------------------
(* Effects and patterns *)

\* an empty pattern slot (null in the code)
NullSlot == "null"

\* App.tsx:10-31  Object.keys(FX_CONFIG), in insertion order
FxKeys ==
    << "normal", "reverb", "delay", "reverse", "glitch", "lowpass", "highpass",
       "bandpass", "phaser", "stutter", "pitchUp", "pitchDown", "autoPan",
       "gate", "bitcrusher", "pingPong", "filterSweep", "vibrato", "tapeStop",
       "stereoWiden" >>

FxSet == { FxKeys[i] : i \in 1..Len(FxKeys) }

\* the effects the model lets the user select and the slots it lets them
\* click: under Spec and RunSpec, and under EditSpec
FxChoices == {"normal"}
ToggleIdx == {0, 1}
EditFxChoices == {"normal", "glitch", "reverse"}
EditToggleIdx == {0, 1, 15}
FxToggleIdx == {0}

\* App.tsx:122, 183  Array(16).fill(null)
EmptyPattern == [i \in 1..NumSteps |-> NullSlot]

\* App.tsx:159  [...Object.keys(FX_CONFIG), null, null, null, null, null, null]
possibleStates == FxKeys \o [i \in 1..6 |-> NullSlot]

\* Array.prototype.join(','): null becomes the empty string; the result is
\* kept as the sequence of its pieces (tokens and separators)
JoinComma(p) ==
    [k \in 1..(2 * Len(p) - 1) |->
        IF k % 2 = 0 THEN ","
        ELSE IF p[(k + 1) \div 2] = NullSlot THEN "" ELSE p[(k + 1) \div 2]]

\* App.tsx:156
isSamePattern(p1, p2) == JoinComma(p1) = JoinComma(p2)

\* a variant of DrawPattern: the last slot is not drawn
DrawPattern_Short(r) == [i \in 1..(NumSteps - 1) |-> possibleStates[r[i] + 1]]

\* App.tsx:162: one draw, given the 16 values of
\* Math.floor(Math.random() * possibleStates.length) (0-based)
DrawPattern(r) == [i \in 1..NumSteps |-> possibleStates[r[i] + 1]]

\* a variant of RetryDraw: only the all-empty draw is repeated
RetryDraw_OnlyEmpty(newPattern, p) ==
    \A i \in 1..NumSteps : newPattern[i] = NullSlot

\* App.tsx:163: the do/while repeats the draw while this holds
RetryDraw(newPattern, p) ==
    isSamePattern(newPattern, p) \/ \A i \in 1..NumSteps : newPattern[i] = NullSlot

\* the random index vectors the model draws: slots 0 and 1 take an index of
\* D, every other slot the index 20 (the first null)
DrawsOver(D) ==
    { [i \in 1..NumSteps |-> IF i = 1 THEN a ELSE IF i = 2 THEN b ELSE 20] :
        a \in D, b \in D }
\* under Spec: 'normal' or the first null; under EditSpec: 'normal', 'glitch',
\* the first and the last null
RandomDraws == DrawsOver({0, 20})
EditRandomDraws == DrawsOver({0, 4, 20, 25})

------------------------------------------------------------------------------
(* Audio buffers: a buffer is the sequence of its channels, a channel the   *)
(* sequence of its frames; no buffer (null) is the empty sequence.          *)

NoBuffer == << >>
NoSelection == << >>

\* the decoded loop the model lets a generation produce (2 channels,
\* audioUtils.ts:17), frames as small integers
GenBuffers == { << <<1, 2, 3>>, <<4, 5, 6>> >> }

\* selections handed to onSelect (App.tsx:387), start and end counted in
\* half frames: a selection is <<start, end>>
Selections == { <<1, 5>> }
EditSelections == { <<0, 0>>, <<1, 5>>, <<2, 6>> }
LoadingSelections == { <<0, 2>> }

\* the copy left in its forward order
Reverse_Keep(s) == s

\* App.tsx:264  Float32Array.reverse: frame k becomes frame n-1-k
Reverse(s) == [k \in 1..Len(s) |-> s[Len(s) + 1 - k]]

------------------------------------------------------------------------------
VARIABLES
    \* App state (App.tsx:110-128)
    bpm, pattern, selectedFx, isLoading, error,
    generatedAudioBuffer, selection, sequencerSample, reversedSequencerSample,
    audioContext,
    \* Sequencer state and refs (Sequencer.tsx:35-42)
    mounted, isPlaying, currentStep, timerRef, nextStepTimeRef, stepRef,
    impulseResponseRef, limiterRef,
    \* environment: the audio clock, the pending window timers, the fired
    \* steps the audio context still holds a start for (each stands for the
    \* graph scheduled for it), and how many limiters and impulse responses
    \* have been created
    now, timers, events, built,
    \* history: the steps processed by the latest scheduler call of the current
    \* playback run, that run, the latest handler, consecutive toggles
    batch, run, lastEvent, tgl,
    \* the file the latest handler offered for download, if it did
    download,
    \* the waveform selector's own state (WaveformSelector.tsx:10-12): whether
    \* a drag is on, the highlighted range in canvas pixels, where the drag began
    selector,
    \* one call of generateAudio (geminiService.ts:23-35): where the async
    \* function stands, its locals, the promise, and the remote session
    genPc, session, audioChunks, totalByteLength, collectionTimeout,
    initialTimeout, sessionClosed, hasReceivedAudio, outcome,
    link, closeCalls, delivered

appVars == << bpm, pattern, selectedFx, isLoading, error, generatedAudioBuffer,
              selection, sequencerSample, reversedSequencerSample, audioContext >>
seqVars == << mounted, isPlaying, currentStep, timerRef, nextStepTimeRef, stepRef,
              impulseResponseRef, limiterRef, timers, batch, run, events, built >>
genVars == << genPc, session, audioChunks, totalByteLength, collectionTimeout,
              initialTimeout, sessionClosed, hasReceivedAudio, outcome,
              link, closeCalls, delivered >>
vars == << appVars, seqVars, now, lastEvent, tgl, download, selector, genVars >>

\* no file offered
NoFile == [sources |-> {}, duration |-> 0, totalFrames |-> 0, channels |-> 0]

\* WaveformSelector.tsx:10-12  the selector as it is mounted
NoDrag == [isDragging |-> FALSE, selection |-> << >>, dragStart |-> 0]

NoToggle == [n |-> 0]
\* no playback run; a run records the clock when it was last anchored, the
\* steps processed since then before the latest batch, whether it is still
\* the anchoring of its start, the latest trigger time fired in it before the
\* latest batch, and (until its first poll) the step counter its start found
NoRun == [anchor |-> -1, count |-> 0, clean |-> FALSE, firedMax |-> -1, from |-> 0]

------------------------------------------------------------------------------
(* The audio graph the scheduler builds for one fired step                  *)
(* (Sequencer.tsx:66-299). Nodes are named after the code's variables; the  *)
(* copies made in a loop carry the loop index. "limiter" is the master bus. *)

\* a frame of the model's buffers lasts one step at the fastest tempo
FrameTime == StepDuration(300)

\* AudioBuffer.duration, in the unit of the clock
BufferDuration(buf) == IF buf = NoBuffer THEN 0 ELSE Len(buf[1]) * FrameTime

\* start(when) without a duration: the buffer plays to its end
Whole == -1

\* Sequencer.tsx:128  stutterTime = 0.05 (seconds)
GlitchStutterTime == 150
\* Sequencer.tsx:129  numStutters
GlitchNumStutters == 3
\* Sequencer.tsx:143  numRepeats
StutterNumRepeats == 4

\* a variant of StutterRepeatTime: sixteenth notes
StutterRepeatTime_Sixteenth(b) == 45000 \div b

\* Sequencer.tsx:144  repeatTime = (60.0 / bpm) / 8.0
StutterRepeatTime(b) == 22500 \div b

GainNames == << "gain0", "gain1", "gain2", "gain3", "gain4" >>
CopyNames == << "stutterSource0", "stutterSource1", "stutterSource2",
                "stutterSource3", "stutterSource4" >>

\* Sequencer.tsx:67-74  the primary source and its buffer
PrimaryBuffer(fx, sample, reversed) ==
    IF fx = "reverse" /\ reversed /= NoBuffer THEN reversed ELSE sample

SourceGraph ==
    [nodes |-> {"source"}, edges |-> {}, mods |-> {}, starts |-> {},
     stops |-> {}, autos |-> {}, values |-> {}, cur |-> "source"]

\* a value given to a parameter of a node, as the fraction num / den
ParamValue(node, param, num, den) ==
    [node |-> node, param |-> param, num |-> num, den |-> den]

\* a start(when, offset, duration) of a source or an oscillator
StartOf(node, when, offset, dur, buf) ==
    [node |-> node, when |-> when, offset |-> offset, dur |-> dur, buffer |-> buf]

\* a variant of Chain: the new node is not fed by the node before it
Chain_NoConnect(g, n) == [g EXCEPT !.nodes = @ \cup {n}, !.cur = n]

\* currentNode.connect(n); currentNode = n
Chain(g, n) ==
    [g EXCEPT !.nodes = @ \cup {n}, !.edges = @ \cup {<< g.cur, n >>}, !.cur = n]

\* an oscillator started at the trigger time and stopped when the sample ends
WithLfo(g, t, d) ==
    [g EXCEPT !.nodes = @ \cup {"lfo"},
              !.starts = @ \cup {StartOf("lfo", t, 0, Whole, NoBuffer)},
              !.stops = @ \cup {[node |-> "lfo", when |-> t + d]}]

\* an automation event on a parameter, its time in hundredths of the unit
AutoAt(node, param, when100) == [node |-> node, param |-> param, when |-> when100]

\* Sequencer.tsx:127-141  case 'glitch'
GlitchGraph(g, t, sample) ==
    LET I == 1..GlitchNumStutters
    IN  [g EXCEPT
          !.nodes = @ \cup {GainNames[i] : i \in I} \cup {CopyNames[i] : i \in I}
                      \cup {"dummy"},
          !.edges = @ \cup {<< CopyNames[i], GainNames[i] >> : i \in I}
                      \cup {<< GainNames[i], "limiter" >> : i \in I},
          !.autos = @ \cup {AutoAt(GainNames[i], "gain",
                                   100 * (t + (i - 1) * GlitchStutterTime)) : i \in I},
          !.values = @ \cup {ParamValue(GainNames[i], "gain",
                                        GlitchNumStutters - (i - 1),
                                        GlitchNumStutters) : i \in I},
          !.starts = @ \cup {StartOf(CopyNames[i], t + (i - 1) * GlitchStutterTime,
                                     0, GlitchStutterTime, sample) : i \in I},
          !.cur = "dummy"]

\* Sequencer.tsx:142-153  case 'stutter'
StutterGraph(g, b, t, sample) ==
    LET I == 1..StutterNumRepeats
    IN  [g EXCEPT
          !.nodes = @ \cup {CopyNames[i] : i \in I} \cup {"dummy"},
          !.edges = @ \cup {<< CopyNames[i], "limiter" >> : i \in I},
          !.starts = @ \cup {StartOf(CopyNames[i], t + (i - 1) * StutterRepeatTime(b),
                                     0, StutterRepeatTime(b), sample) : i \in I},
          !.cur = "dummy"]

\* Sequencer.tsx:88-102  case 'delay': a wet path of its own into the limiter
DelayGraph(g) ==
    [g EXCEPT
      !.nodes = @ \cup {"delay", "feedback", "wetLevel"},
      !.edges = @ \cup {<< g.cur, "delay" >>, << "delay", "feedback" >>,
                        << "feedback", "delay" >>, << "delay", "wetLevel" >>,
                        << "wetLevel", "limiter" >>}]

\* Sequencer.tsx:103-126  case 'pingPong'
PingPongGraph(g) ==
    [g EXCEPT
      !.nodes = @ \cup {"delayL", "delayR", "feedback", "merger", "splitter"},
      !.edges = @ \cup {<< g.cur, "splitter" >>, << "splitter", "delayL" >>,
                        << "splitter", "delayR" >>, << "delayL", "feedback" >>,
                        << "feedback", "delayR" >>, << "delayR", "merger" >>,
                        << "delayL", "merger" >>},
      !.values = @ \cup {ParamValue("feedback", "gain", 1, 2)},
      !.cur = "merger"]

\* Sequencer.tsx:194-216  case 'phaser'
PhaserGraph(g, t, d) ==
    LET h == WithLfo(g, t, d)
    IN  [h EXCEPT
          !.nodes = @ \cup {"allpass1", "allpass2", "lfoGain"},
          !.edges = @ \cup {<< "lfo", "lfoGain" >>, << g.cur, "allpass1" >>,
                            << "allpass1", "allpass2" >>},
          !.mods = @ \cup {<< "lfoGain", "allpass1.frequency" >>,
                           << "lfoGain", "allpass2.frequency" >>},
          !.cur = "allpass2"]

\* Sequencer.tsx:223-234  case 'vibrato'
VibratoGraph(g, t, d) ==
    LET h == WithLfo(g, t, d)
    IN  [h EXCEPT !.nodes = @ \cup {"lfoGain"},
                  !.edges = @ \cup {<< "lfo", "lfoGain" >>},
                  !.mods = @ \cup {<< "lfoGain", "source.detune" >>}]

\* Sequencer.tsx:235-246  case 'autoPan'
AutoPanGraph(g, t, d) ==
    LET h == Chain(WithLfo(g, t, d), "panner")
    IN  [h EXCEPT !.mods = @ \cup {<< "lfo", "panner.pan" >>}]

\* Sequencer.tsx:247-257  case 'gate'
GateGraph(g, b, t) ==
    LET h == Chain(g, "gateGain")
    IN  [h EXCEPT !.autos = @ \cup {AutoAt("gateGain", "gain",
                                           100 * t + k * StepDuration(b)) :
                                    k \in {0, 5, 45, 50}}]

\* Sequencer.tsx:279-293  case 'stereoWiden', when the browser has
\* createStereoPanner
StereoWidenGraph(g) ==
    [g EXCEPT
      !.nodes = @ \cup {"splitter", "merger", "delay"},
      !.edges = @ \cup {<< g.cur, "splitter" >>, << "splitter", "delay" >>,
                        << "delay", "merger" >>, << "splitter", "merger" >>},
      !.cur = "merger"]

\* Sequencer.tsx:78-294  the switch on the effect: impulse tells whether the
\* impulse response is there, panner whether createStereoPanner is
EffectGraph(g, fx, b, t, sample, impulse, panner) ==
    LET d == BufferDuration(sample)
    IN  CASE fx = "reverb" -> IF impulse THEN Chain(g, "convolver") ELSE g
          [] fx = "delay" -> DelayGraph(g)
          [] fx = "pingPong" -> PingPongGraph(g)
          [] fx = "glitch" -> GlitchGraph(g, t, sample)
          [] fx = "stutter" -> StutterGraph(g, b, t, sample)
          [] fx = "tapeStop" ->
                [g EXCEPT !.autos = @ \cup {AutoAt("source", "playbackRate", 100 * t),
                                            AutoAt("source", "playbackRate",
                                                   100 * t + 75 * d)}]
          [] fx \in {"lowpass", "highpass", "bandpass"} -> Chain(g, "filter")
          [] fx = "filterSweep" ->
                [Chain(g, "filter") EXCEPT
                    !.autos = @ \cup {AutoAt("filter", "frequency", 100 * t),
                                      AutoAt("filter", "frequency", 100 * (t + d))}]
          [] fx = "phaser" -> PhaserGraph(g, t, d)
          [] fx = "vibrato" -> VibratoGraph(g, t, d)
          [] fx = "autoPan" -> AutoPanGraph(g, t, d)
          [] fx = "gate" -> GateGraph(g, b, t)
          [] fx = "bitcrusher" -> Chain(g, "crusher")
          [] fx = "stereoWiden" -> IF panner THEN StereoWidenGraph(g) ELSE g
          [] OTHER -> g

\* a variant of RoutePrimary: the primary source is routed for every effect
RoutePrimary_Always(g, fx, t, buf) ==
    [g EXCEPT !.edges = @ \cup {<< g.cur, "limiter" >>},
              !.starts = @ \cup {StartOf("source", t, 0, Whole, buf)}]

\* Sequencer.tsx:296-299  the primary routing, skipped for glitch and stutter
RoutePrimary(g, fx, t, buf) ==
    IF fx /= "glitch" /\ fx /= "stutter"
    THEN [g EXCEPT !.edges = @ \cup {<< g.cur, "limiter" >>},
                   !.starts = @ \cup {StartOf("source", t, 0, Whole, buf)}]
    ELSE g

\* Sequencer.tsx:66-299  everything one fired step creates and schedules
BuildGraph(fx, b, t, sample, reversed, impulse, panner) ==
    RoutePrimary(EffectGraph(SourceGraph, fx, b, t, sample, impulse, panner),
                 fx, t, PrimaryBuffer(fx, sample, reversed))

\* the nodes an audio path leads to from the nodes of S
RECURSIVE ReachableFrom(_, _)
ReachableFrom(edges, S) ==
    LET T == S \cup {e[2] : e \in {x \in edges : x[1] \in S}}
    IN  IF T = S THEN S ELSE ReachableFrom(edges, T)

HasPath(g, a, b) == b \in ReachableFrom(g.edges, {a})

------------------------------------------------------------------------------
(* The Sequencer component: scheduler and play/stop effect                  *)

Max(a, b) == IF a >= b THEN a ELSE b

\* the values a scheduler closure captures (Sequencer.tsx:310, its dependencies)
Closure(b, p, s, r, ctx) ==
    [bpm |-> b, pattern |-> p, sampleBuffer |-> s, reversedSampleBuffer |-> r,
     audioContext |-> ctx]

CurrentClosure ==
    Closure(bpm, pattern, sequencerSample, reversedSequencerSample, audioContext)

\* the refs and state the scheduler and the effect read and write
SeqState ==
    [timers |-> timers, timerRef |-> timerRef, next |-> nextStepTimeRef,
     step |-> stepRef, cur |-> currentStep, batch |-> batch, events |-> events]

\* a variant of clearTimeout: the timer stays pending
clearTimeout_Keep(s, id) == s

\* window.clearTimeout(id)
clearTimeout(s, id) == [s EXCEPT !.timers = { t \in @ : t.id /= id }]

\* window.setTimeout: the new timer's id, unused by any pending timer
FreshId(ts) == CHOOSE i \in 1..(Cardinality(ts) + 1) : \A t \in ts : t.id /= i

\* Sequencer.tsx:65-77, 296-299: what one step fires. A step fires when its
\* slot holds an effect and a sample is loaded; its primary source plays the
\* reversed sample for 'reverse' (when there is one).
StepRecord(c, step, next) ==
    LET fx == c.pattern[step + 1]
        fires == fx /= NullSlot /\ c.sampleBuffer /= NoBuffer
    IN  [step |-> step, time |-> next, at |-> now, fired |-> fires,
         fx |-> IF fires THEN fx ELSE NullSlot,
         buffer |-> IF ~fires THEN NoBuffer
                    ELSE IF fx = "reverse" /\ c.reversedSampleBuffer /= NoBuffer
                         THEN c.reversedSampleBuffer
                    ELSE c.sampleBuffer]

\* Sequencer.tsx:62, 80  the refs a scheduler call reads: the limiter (0 when
\* there is none, else the instance) and whether the impulse response is there
Bus == [limiter |-> IF limiterRef THEN built.limiter ELSE 0,
        impulse |-> impulseResponseRef]

\* Sequencer.tsx:66-299  what a fired step hands to the audio context: the
\* values its graph is built from and the limiter that graph ends in
Firing(c, step, next, bus) ==
    [step |-> step, time |-> next, fx |-> c.pattern[step + 1], bpm |-> c.bpm,
     sample |-> c.sampleBuffer, reversed |-> c.reversedSampleBuffer,
     impulse |-> bus.impulse, limiter |-> bus.limiter]

\* a variant of FireStep: a step fired again replaces what it scheduled
FireStep_Replace(ev, c, step, next, bus) ==
    IF c.pattern[step + 1] /= NullSlot /\ c.sampleBuffer /= NoBuffer
    THEN { f \in ev : f.step /= step } \cup {Firing(c, step, next, bus)}
    ELSE { f \in ev : f.step /= step }

\* Sequencer.tsx:66  if (fx && sampleBuffer): the events after the step
FireStep(ev, c, step, next, bus) ==
    IF c.pattern[step + 1] /= NullSlot /\ c.sampleBuffer /= NoBuffer
    THEN ev \cup {Firing(c, step, next, bus)}
    ELSE ev

\* the graph scheduled for a firing
GraphOf(f, panner) ==
    BuildGraph(f.fx, f.bpm, f.time, f.sample, f.reversed, f.impulse, panner)

\* a variant of StepIsDue: the look-ahead window closed at its far end
StepIsDue_Inclusive(next) == next <= now + Lookahead

\* Sequencer.tsx:64  the condition of the while loop
StepIsDue(next) == next < now + Lookahead

\* Sequencer.tsx:303  nextStepTimeRef.current += secondsPerStep
AdvanceTime(next, c) == next + StepDuration(c.bpm)

\* a variant of AdvanceStep: the counter stays where it is
AdvanceStep_Stay(step) == step

\* Sequencer.tsx:306  stepRef.current = (stepRef.current + 1) % 16
AdvanceStep(step) == (step + 1) % NumSteps

\* Sequencer.tsx:64-307  the while loop of the scheduler
RECURSIVE SchedulerLoop(_, _, _)
SchedulerLoop(s, c, bus) ==
    IF StepIsDue(s.next)
    THEN SchedulerLoop(
             [s EXCEPT !.batch = Append(@, StepRecord(c, s.step, s.next)),
                       !.events = FireStep(@, c, s.step, s.next, bus),
                       !.next = AdvanceTime(s.next, c),
                       !.cur = s.step,
                       !.step = AdvanceStep(s.step)], c, bus)
    ELSE s

\* a variant of SetPollTimer: the timer ref is not written
SetPollTimer_KeepRef(s, c) ==
    LET id == FreshId(s.timers)
    IN  [s EXCEPT !.timers = @ \cup {[id |-> id, due |-> now + PollDelay, c |-> c]}]

\* Sequencer.tsx:309  timerRef.current = window.setTimeout(scheduler, 25)
SetPollTimer(s, c) ==
    LET id == FreshId(s.timers)
    IN  [s EXCEPT !.timers = @ \cup {[id |-> id, due |-> now + PollDelay, c |-> c]},
                  !.timerRef = id]

\* a variant of scheduler: an if in place of the while, one step a call
scheduler_OneStep(s, c, bus) ==
    IF ~c.audioContext \/ bus.limiter = 0
    THEN s
    ELSE SetPollTimer(
             IF StepIsDue(s.next)
             THEN [s EXCEPT !.batch = << StepRecord(c, s.step, s.next) >>,
                            !.events = FireStep(@, c, s.step, s.next, bus),
                            !.next = AdvanceTime(s.next, c),
                            !.cur = s.step,
                            !.step = AdvanceStep(s.step)]
             ELSE [s EXCEPT !.batch = << >>], c)

\* Sequencer.tsx:60-310  scheduler, as built by the render that captured c
scheduler(s, c, bus) ==
    IF ~c.audioContext \/ bus.limiter = 0
    THEN s
    ELSE SetPollTimer(SchedulerLoop([s EXCEPT !.batch = << >>], c, bus), c)

\* a variant of EffectCleanup: the pending poll is not cancelled
EffectCleanup_Leak(s) == s

\* Sequencer.tsx:328-330  the clean-up of the play/stop effect
EffectCleanup(s) ==
    IF s.timerRef /= 0 THEN clearTimeout(s, s.timerRef) ELSE s

\* a variant of AnchorRun: the step counter is not set back
AnchorRun_KeepStep(s, c) ==
    [s EXCEPT !.next = IF c.audioContext THEN now ELSE 0]

\* Sequencer.tsx:318-319  the start of a run: step 0, due at the clock's time
AnchorRun(s, c) ==
    [s EXCEPT !.step = 0, !.next = IF c.audioContext THEN now ELSE 0]

\* a variant of StopBranch: stopping retracts what is scheduled
StopBranch_Retract(s) ==
    [(IF s.timerRef /= 0 THEN clearTimeout(s, s.timerRef) ELSE s)
        EXCEPT !.timerRef = 0, !.cur = -1, !.batch = << >>, !.events = {}]

\* Sequencer.tsx:322-326  the stop branch
StopBranch(s) ==
    [(IF s.timerRef /= 0 THEN clearTimeout(s, s.timerRef) ELSE s)
        EXCEPT !.timerRef = 0, !.cur = -1, !.batch = << >>]

\* Sequencer.tsx:313-327  the play/stop effect
EffectBody(s, playing, c, bus) ==
    IF playing THEN scheduler(AnchorRun(s, c), c, bus) ELSE StopBranch(s)

\* the effect re-run: the previous run's clean-up, then the body
RunEffect(s, playing, c, bus) == EffectBody(EffectCleanup(s), playing, c, bus)

\* the largest trigger time among the fired steps of a batch and m
RECURSIVE MaxFired(_, _)
MaxFired(b, m) ==
    IF b = << >> THEN m
    ELSE MaxFired(Tail(b), IF Head(b).fired THEN Max(m, Head(b).time) ELSE m)

\* write a sequencer state record back to the variables
InstallSeq(s) ==
    /\ timers' = s.timers
    /\ timerRef' = s.timerRef
    /\ nextStepTimeRef' = s.next
    /\ stepRef' = s.step
    /\ currentStep' = s.cur
    /\ batch' = s.batch
    /\ events' = s.events

\* a variant of NeedsNode: a node is created whenever there is a context
NeedsNode_Always(ctx, ref) == ctx

\* Sequencer.tsx:45, 48  audioContext && !ref.current
NeedsNode(ctx, ref) == ctx /\ ~ref

\* Sequencer.tsx:44-58  the limiters and impulse responses created so far,
\* after the effect ran with the context ctx
BuiltAfter(ctx) ==
    [limiter |-> built.limiter + (IF NeedsNode(ctx, limiterRef) THEN 1 ELSE 0),
     impulse |-> built.impulse + (IF NeedsNode(ctx, impulseResponseRef) THEN 1 ELSE 0)]

\* the refs a scheduler call reads after that effect
BusAfter(ctx) ==
    [limiter |-> IF limiterRef \/ ctx THEN BuiltAfter(ctx).limiter ELSE 0,
     impulse |-> impulseResponseRef \/ ctx]

\* Sequencer.tsx:44-58  the effect that builds the impulse response and the
\* limiter; run at every commit here, its guards make a later run change
\* nothing
InstallMasterBus(ctx) ==
    /\ impulseResponseRef' = (impulseResponseRef \/ ctx)
    /\ limiterRef' = (limiterRef \/ ctx)
    /\ built' = BuiltAfter(ctx)

\* A commit of App that changed a dependency of the play/stop effect
\* (Sequencer.tsx:331: isPlaying, scheduler, audioContext): c is the closure
\* of the new render. While playing this anchors the run again.
CommitSequencer(c) ==
         /\ InstallMasterBus(c.audioContext)
         /\ InstallSeq(RunEffect(SeqState, isPlaying, c, BusAfter(c.audioContext)))
         /\ run' = IF isPlaying
                   THEN [run EXCEPT !.anchor = now, !.count = 0, !.clean = FALSE,
                                    !.firedMax = MaxFired(batch, @), !.from = 0]
                   ELSE run
         /\ UNCHANGED << mounted, isPlaying >>

Hist(ev) == lastEvent' = ev /\ tgl' = NoToggle /\ download' = NoFile

\* a variant of CanToggle: the guard on the sample is missing
CanToggle_Always == TRUE

\* Sequencer.tsx:334  handlePlayToggle goes on only with a sample
CanToggle == sequencerSample /= NoBuffer

\* Sequencer.tsx:333-336  handlePlayToggle and the commit it causes
HandlePlayToggle ==
    /\ mounted
    /\ IF CanToggle
       THEN /\ isPlaying' = ~isPlaying
            /\ InstallSeq(RunEffect(SeqState, ~isPlaying, CurrentClosure, Bus))
            /\ run' = IF ~isPlaying
                      THEN [anchor |-> now, count |-> 0, clean |-> TRUE,
                            firedMax |-> -1, from |-> stepRef]
                      ELSE NoRun
            /\ UNCHANGED << mounted, impulseResponseRef, limiterRef, built >>
       ELSE UNCHANGED seqVars
    /\ UNCHANGED << appVars, now >>
    /\ UNCHANGED << genVars, selector >>
    /\ Hist("playToggle")

\* a pending poll timer fires and runs the scheduler it holds
Poll ==
    /\ \E t \in timers :
        /\ now >= t.due
        /\ InstallSeq(scheduler([SeqState EXCEPT !.timers = @ \ {t}], t.c, Bus))
    /\ run' = [run EXCEPT !.count = @ + Len(batch),
                          !.firedMax = MaxFired(batch, @), !.from = 0]
    /\ UNCHANGED << mounted, isPlaying, impulseResponseRef, limiterRef, built >>
    /\ UNCHANGED << appVars, now >>
    /\ UNCHANGED << genVars, selector >>
    /\ Hist("poll")

\* the Sequencer component is discarded: the effect's clean-up runs
Unmount ==
    /\ mounted
    /\ mounted' = FALSE
    /\ InstallSeq(EffectCleanup(SeqState))
    /\ UNCHANGED << isPlaying, impulseResponseRef, limiterRef, run, built >>
    /\ UNCHANGED << appVars, now >>
    /\ UNCHANGED << genVars, selector >>
    /\ Hist("unmount")

\* the audio context is done with a firing once the clock has passed every
\* start scheduled for it
StillScheduled(f, t) == \E st \in GraphOf(f, TRUE).starts : st.when >= t

\* the audio clock advances by d, up to n steps of d; it is followed for as
\* long as the component or a timer is there to read it
Tick(d, n) ==
    /\ audioContext
    /\ mounted \/ timers /= {}
    /\ now + d <= n * d
    /\ now' = now + d
    /\ events' = { f \in events : StillScheduled(f, now') }
    /\ UNCHANGED << appVars, mounted, isPlaying, currentStep, timerRef,
                    nextStepTimeRef, stepRef, impulseResponseRef, limiterRef,
                    timers, batch, run, built >>
    /\ UNCHANGED << genVars, selector >>
    /\ Hist("tick")

------------------------------------------------------------------------------
(* The App component: pattern, tempo, generation, sample loading            *)

\* a variant of ToggleStep: the selected effect is always written
ToggleStep_AlwaysSet(p, index, fx) == [p EXCEPT ![index + 1] = fx]

\* App.tsx:143-152  handleToggleStep: the new pattern
ToggleStep(p, index, fx) ==
    [p EXCEPT ![index + 1] = IF p[index + 1] = fx THEN NullSlot ELSE fx]

\* a click on a step button (Sequencer.tsx:370)
HandleToggleStep(Idx) ==
    /\ mounted
    /\ \E index \in Idx :
        /\ pattern' = ToggleStep(pattern, index, selectedFx)
        /\ tgl' = IF tgl.n = 1 /\ tgl.index = index /\ tgl.fx = selectedFx
                  THEN [tgl EXCEPT !.n = 2]
                  ELSE [n |-> 1, index |-> index, fx |-> selectedFx,
                        orig |-> pattern[index + 1]]
    /\ CommitSequencer(Closure(bpm, pattern', sequencerSample,
                               reversedSequencerSample, audioContext))
    /\ UNCHANGED << genVars, selector >>
    /\ lastEvent' = "toggle"
    /\ download' = NoFile
    /\ UNCHANGED << bpm, selectedFx, isLoading, error, generatedAudioBuffer,
                    selection, sequencerSample, reversedSequencerSample,
                    audioContext, now >>

\* App.tsx:154-166  handleRandomizePattern: the do/while ends with the first
\* draw it need not repeat; the button is disabled without a sample
\* (Sequencer.tsx:350)
HandleRandomizePattern(Draws) ==
    /\ mounted
    /\ sequencerSample /= NoBuffer
    /\ \E r \in Draws :
        /\ ~RetryDraw(DrawPattern(r), pattern)
        /\ pattern' = DrawPattern(r)
    /\ CommitSequencer(Closure(bpm, pattern', sequencerSample,
                               reversedSequencerSample, audioContext))
    /\ UNCHANGED << genVars, selector >>
    /\ Hist("randomize")
    /\ UNCHANGED << bpm, selectedFx, isLoading, error, generatedAudioBuffer,
                    selection, sequencerSample, reversedSequencerSample,
                    audioContext, now >>

\* App.tsx:358  setBpm(Number(e.target.value)): a new tempo
SetBpm(Ts) ==
    /\ mounted
    /\ \E b \in Ts \ {bpm} : bpm' = b
    /\ CommitSequencer(Closure(bpm', pattern, sequencerSample,
                               reversedSequencerSample, audioContext))
    /\ UNCHANGED << genVars, selector >>
    /\ Hist("setBpm")
    /\ UNCHANGED << pattern, selectedFx, isLoading, error, generatedAudioBuffer,
                    selection, sequencerSample, reversedSequencerSample,
                    audioContext, now >>

\* App.tsx:406  setSelectedFx(id): no dependency of the scheduler changes
SetSelectedFx(Fs) ==
    /\ mounted
    /\ \E f \in Fs \ {selectedFx} : selectedFx' = f
    /\ UNCHANGED << genVars, selector >>
    /\ Hist("selectFx")
    /\ UNCHANGED << bpm, pattern, isLoading, error, generatedAudioBuffer,
                    selection, sequencerSample, reversedSequencerSample,
                    audioContext, now >>
    /\ UNCHANGED seqVars

\* App.tsx:169-183  handleGenerate up to its await: the audio context is
\* created (130-141), everything held is cleared; the button is disabled
\* while loading (365)
GenerateBody ==
    /\ mounted
    /\ ~isLoading
    /\ audioContext' = TRUE
    /\ isLoading' = TRUE
    /\ error' = "none"
    /\ generatedAudioBuffer' = NoBuffer
    /\ sequencerSample' = NoBuffer
    /\ reversedSequencerSample' = NoBuffer
    /\ selection' = NoSelection
    /\ pattern' = EmptyPattern
    /\ CommitSequencer(Closure(bpm, EmptyPattern, NoBuffer, NoBuffer, TRUE))
    /\ Hist("generate")
    /\ UNCHANGED << bpm, selectedFx, now, selector >>

\* WaveformSelector.tsx:47-57  the selector is handed a new buffer: it draws
\* it and drops its highlight
ShowBuffer(sel) == [sel EXCEPT !.selection = << >>]

\* handleGenerate with the call of generateAudio left to GenerateResolved and
\* GenerateRejected
HandleGenerate == GenerateBody /\ UNCHANGED genVars

\* App.tsx:186-189, 193  generateAudio resolved and the bytes decoded
GenerateResolved ==
    /\ mounted
    /\ isLoading
    /\ \E b \in GenBuffers : generatedAudioBuffer' = b
    /\ isLoading' = FALSE
    /\ selector' = ShowBuffer(selector)
    /\ UNCHANGED genVars
    /\ Hist("generated")
    /\ UNCHANGED << bpm, pattern, selectedFx, error, selection, sequencerSample,
                    reversedSequencerSample, audioContext, now >>
    /\ UNCHANGED seqVars

\* App.tsx:190-193  generateAudio rejected: the message is shown
GenerateRejected ==
    /\ mounted
    /\ isLoading
    /\ error' = "message"
    /\ isLoading' = FALSE
    /\ UNCHANGED << genVars, selector >>
    /\ Hist("generateFailed")
    /\ UNCHANGED << bpm, pattern, selectedFx, generatedAudioBuffer, selection,
                    sequencerSample, reversedSequencerSample, audioContext, now >>
    /\ UNCHANGED seqVars

\* App.tsx:387  onSelect(start, end) from the waveform selector, which
\* reports only while it shows a buffer (WaveformSelector.tsx:106) and
\* reports times within that buffer's duration (118-119)
OnSelect(Sels) ==
    /\ mounted
    /\ generatedAudioBuffer /= NoBuffer
    /\ \E sel \in Sels \ {selection} :
        /\ sel[2] <= 2 * Len(generatedAudioBuffer[1])
        /\ selection' = sel
    /\ UNCHANGED << genVars, selector >>
    /\ Hist("select")
    /\ UNCHANGED << bpm, pattern, selectedFx, isLoading, error,
                    generatedAudioBuffer, sequencerSample,
                    reversedSequencerSample, audioContext, now >>
    /\ UNCHANGED seqVars

\* WaveformSelector.tsx:135  the canvas is 1000 pixels wide
CanvasWidth == 1000

\* WaveformSelector.tsx:113  a drag narrower than this is ignored
TinyPixels == 2

\* the canvas positions a pointer event is reported at (getEventX, 81-89)
PixelChoices == {0, 1, 3, 334, 335, 1000}

Min(a, b) == IF a <= b THEN a ELSE b

\* WaveformSelector.tsx:119-120  (pixel / canvasWidth) * duration, counted in
\* half frames
TimeOfPixel(x, buf) == (x * 2 * Len(buf[1])) \div CanvasWidth

\* every drag taken for a selection
IsTinyDrag_Never(startPixel, endPixel) == FALSE

\* WaveformSelector.tsx:113  if (endPixel - startPixel < 2)
IsTinyDrag(startPixel, endPixel) == endPixel - startPixel < TinyPixels

\* the selector changes its own state only: nothing of the application or of
\* the sequencer is touched
SelectorOnly(ev) ==
    /\ Hist(ev)
    /\ UNCHANGED << appVars, seqVars, now, genVars >>

\* WaveformSelector.tsx:91-97  handleMouseDown
HandleMouseDown(Xs) ==
    /\ mounted
    /\ generatedAudioBuffer /= NoBuffer
    /\ \E x \in Xs :
          selector' = [isDragging |-> TRUE, selection |-> <<x, x>>, dragStart |-> x]
    /\ SelectorOnly("mousedown")

\* WaveformSelector.tsx:99-103  handleMouseMove
HandleMouseMove(Xs) ==
    /\ mounted
    /\ selector.isDragging /\ generatedAudioBuffer /= NoBuffer
    /\ \E x \in Xs :
          selector' = [selector EXCEPT !.selection = <<selector.dragStart, x>>]
    /\ SelectorOnly("mousemove")

\* WaveformSelector.tsx:105-129  handleMouseUp, also called when the pointer
\* leaves the canvas during a drag; onSelect is the application's
\* setSelection({start, end}) (App.tsx:387)
HandleMouseUp ==
    /\ mounted
    /\ selector.isDragging /\ selector.selection /= << >>
    /\ generatedAudioBuffer /= NoBuffer
    /\ LET startPixel == Min(selector.selection[1], selector.selection[2])
           endPixel == Max(selector.selection[1], selector.selection[2])
       IN  IF IsTinyDrag(startPixel, endPixel)
           THEN /\ selector' = [selector EXCEPT !.isDragging = FALSE,
                                                !.selection = << >>]
                /\ selection' = <<0, 0>>
           ELSE /\ selector' = [selector EXCEPT !.isDragging = FALSE]
                /\ selection' = << TimeOfPixel(startPixel, generatedAudioBuffer),
                                   TimeOfPixel(endPixel, generatedAudioBuffer) >>
    /\ Hist("mouseup")
    /\ UNCHANGED << bpm, pattern, selectedFx, isLoading, error,
                    generatedAudioBuffer, sequencerSample,
                    reversedSequencerSample, audioContext, now >>
    /\ UNCHANGED << seqVars, genVars >>

\* App.tsx:238-240  Math.floor(t * sampleRate), t counted in half frames
FrameOf(t) == t \div 2

\* App.tsx:258  getChannelData(i).slice(startFrame, endFrame)
SliceChannel(ch, startFrame, endFrame) == SubSeq(ch, startFrame + 1, endFrame)

\* App.tsx:245-261  the forward sample of a selection
ForwardSample(buf, sel) ==
    [i \in 1..Len(buf) |-> SliceChannel(buf[i], FrameOf(sel[1]), FrameOf(sel[2]))]

\* the reversed sample cut one frame later than the forward one
ReversedSample_Tail(buf, sel) ==
    [i \in 1..Len(buf) |->
        Reverse(SliceChannel(buf[i], FrameOf(sel[1]) + 1, FrameOf(sel[2])))]

\* App.tsx:251-265  the reversed sample of a selection
ReversedSample(buf, sel) ==
    [i \in 1..Len(buf) |->
        Reverse(SliceChannel(buf[i], FrameOf(sel[1]), FrameOf(sel[2])))]

\* App.tsx:233-270  handleLoadToSequencer; the button is disabled without a
\* selection or a generated buffer (389)
HandleLoadToSequencer ==
    /\ mounted
    /\ generatedAudioBuffer /= NoBuffer /\ selection /= NoSelection /\ audioContext
    /\ IF FrameOf(selection[2]) - FrameOf(selection[1]) <= 0
       THEN UNCHANGED << sequencerSample, reversedSequencerSample, seqVars >>
       ELSE /\ sequencerSample' = ForwardSample(generatedAudioBuffer, selection)
            /\ reversedSequencerSample' =
                   ReversedSample(generatedAudioBuffer, selection)
            /\ CommitSequencer(Closure(bpm, pattern, sequencerSample',
                                       reversedSequencerSample', audioContext))
    /\ UNCHANGED << genVars, selector >>
    /\ Hist("load")
    /\ UNCHANGED << bpm, pattern, selectedFx, isLoading, error,
                    generatedAudioBuffer, selection, audioContext, now >>

------------------------------------------------------------------------------
(* exportSequence (App.tsx:272-317): one pass through the pattern rendered  *)
(* by an offline context                                                    *)

ExportTempos == {InitialBpm, 120, 300}
ExportToggleIdx == {0, 8}

\* a variant of ExportBuffer: the forward sample for every effect
ExportBuffer_Forward(fx, sample, reversed) == sample

\* App.tsx:297  the buffer of an exported step
ExportBuffer(fx, sample, reversed) ==
    IF fx = "reverse" /\ reversed /= NoBuffer THEN reversed ELSE sample

\* App.tsx:291-301  the sources the loop creates: one for each slot that
\* holds an effect, connected to the offline destination and started at the
\* slot's time
ExportSources(p, b, sample, reversed) ==
    { [slot |-> i, time |-> i * StepDuration(b),
       buffer |-> ExportBuffer(p[i + 1], sample, reversed),
       dest |-> "destination"] :
      i \in { j \in 0..(NumSteps - 1) : p[j + 1] /= NullSlot } }

\* App.tsx:277-287, 304-306  the render: its length, its sources
ExportFile(p, b, sample, reversed) ==
    [sources |-> ExportSources(p, b, sample, reversed),
     duration |-> StepDuration(b) * NumSteps,
     totalFrames |-> (StepDuration(b) * NumSteps) \div FrameTime,
     channels |-> Len(sample)]

\* what the render holds of a source started with start(startTime): the
\* whole buffer from its start time on, cut at the end of the render
AudibleUntil(file, src) ==
    IF src.time + BufferDuration(src.buffer) <= file.duration
    THEN src.time + BufferDuration(src.buffer)
    ELSE file.duration

\* App.tsx:272-317  exportSequence; the button is there only with a sample
\* (424). Rendering either yields the file that is offered for download or
\* throws, and then the message is shown.
\* the rejection logged and nothing shown
RenderFailed_Silent(shown) == shown

\* App.tsx:313-316  the catch of the rendering: the message replaces whatever
\* was shown
RenderFailed(shown) == "Could not render the sequence. Please try again."

ExportSequence ==
    /\ mounted
    /\ sequencerSample /= NoBuffer /\ audioContext
    /\ \E rendered \in BOOLEAN :
        IF rendered
        THEN /\ download' = ExportFile(pattern, bpm, sequencerSample,
                                       reversedSequencerSample)
             /\ lastEvent' = "export"
             /\ error' = error
        ELSE /\ download' = NoFile
             /\ lastEvent' = "exportFailed"
             /\ error' = RenderFailed(error)
    /\ tgl' = NoToggle
    /\ UNCHANGED << bpm, pattern, selectedFx, isLoading, generatedAudioBuffer,
                    selection, sequencerSample, reversedSequencerSample,
                    audioContext, now >>
    /\ UNCHANGED seqVars
    /\ UNCHANGED << genVars, selector >>

------------------------------------------------------------------------------
(* generateAudio (geminiService.ts:23-139): one call, its promise and the   *)
(* callbacks of the live music session                                      *)

\* the messages the model lets the server send
MaxMessages == 3

\* an audio chunk without data (geminiService.ts:87)
NoData == << >>

\* the server messages of the model: audioChunks absent, or a list of chunks,
\* each the bytes its base64 data decodes to (audioUtils.ts:2-10) or NoData
Messages ==
    { [hasChunks |-> FALSE, chunks |-> << >>],
      [hasChunks |-> TRUE, chunks |-> << >>],
      [hasChunks |-> TRUE, chunks |-> << <<1>> >>],
      [hasChunks |-> TRUE, chunks |-> << <<2, 3>>, NoData >>] }

Pending == [kind |-> "pending", reason |-> "none", audio |-> << >>]

\* resolve and reject settle the promise once; later calls change nothing
Resolve(o, audio) ==
    IF o.kind = "pending"
    THEN [kind |-> "resolved", reason |-> "none", audio |-> audio] ELSE o

\* a variant of Reject: a settled promise is rejected over
Reject_Again(o, reason) == [kind |-> "rejected", reason |-> reason, audio |-> << >>]

\* reject settles a pending promise only
Reject(o, reason) ==
    IF o.kind = "pending"
    THEN [kind |-> "rejected", reason |-> reason, audio |-> << >>] ELSE o

\* geminiService.ts:53-58  fullAudio: the chunks, one after the other
RECURSIVE Concat(_)
Concat(chunks) ==
    IF chunks = << >> THEN << >> ELSE Head(chunks) \o Concat(Tail(chunks))

\* the locals cleanupAndResolve reads and writes
GenState ==
    [sessionClosed |-> sessionClosed, collectionTimeout |-> collectionTimeout,
     initialTimeout |-> initialTimeout, closeCalls |-> closeCalls,
     outcome |-> outcome]

\* geminiService.ts:42-46  if (session) session.close()
CloseSession(g, hasSession) ==
    IF hasSession THEN [g EXCEPT !.closeCalls = @ + 1] ELSE g

\* a variant of SettleWithAudio: without audio the promise resolves, empty
SettleWithAudio_ResolveEmpty(g, chunks) ==
    [g EXCEPT !.outcome = Resolve(@, Concat(chunks))]

\* geminiService.ts:48-66  reject without audio, else resolve with all of it
SettleWithAudio(g, chunks) ==
    IF Len(chunks) = 0
    THEN [g EXCEPT !.outcome = Reject(@, "noAudio")]
    ELSE [g EXCEPT !.outcome = Resolve(@, Concat(chunks))]

\* geminiService.ts:37-67  cleanupAndResolve
cleanupAndResolve(g, hasSession, chunks) ==
    IF g.sessionClosed THEN g
    ELSE SettleWithAudio(
             CloseSession([g EXCEPT !.sessionClosed = TRUE,
                                    !.collectionTimeout = FALSE,
                                    !.initialTimeout = FALSE], hasSession),
             chunks)

InstallGen(g) ==
    /\ sessionClosed' = g.sessionClosed
    /\ collectionTimeout' = g.collectionTimeout
    /\ initialTimeout' = g.initialTimeout
    /\ closeCalls' = g.closeCalls
    /\ outcome' = g.outcome

nonGenVars == << appVars, seqVars, now, selector >>

\* geminiService.ts:23-73  a call up to the await of connect: a new promise,
\* new locals, a new session being opened
CallBody ==
    /\ genPc' = "connecting"
    /\ link' = "open"
    /\ session' = FALSE
    /\ audioChunks' = << >>
    /\ totalByteLength' = 0
    /\ collectionTimeout' = FALSE
    /\ initialTimeout' = FALSE
    /\ sessionClosed' = FALSE
    /\ hasReceivedAudio' = FALSE
    /\ outcome' = Pending
    /\ closeCalls' = 0
    /\ delivered' = 0

\* geminiService.ts:23-73  the first call
CallGenerateAudio ==
    /\ genPc = "idle"
    /\ CallBody
    /\ UNCHANGED nonGenVars
    /\ Hist("call")

\* geminiService.ts:73  connect returned the session
ConnectResolved ==
    /\ genPc = "connecting"
    /\ session' = TRUE
    /\ genPc' = "setConfig"
    /\ UNCHANGED << audioChunks, totalByteLength, collectionTimeout,
                    initialTimeout, sessionClosed, hasReceivedAudio, outcome,
                    link, closeCalls, delivered >>
    /\ UNCHANGED nonGenVars
    /\ Hist("connected")

\* geminiService.ts:133-137  connect failed: the outer catch
ConnectRejected ==
    /\ genPc = "connecting"
    /\ genPc' = "done"
    /\ link' = "closed"
    /\ initialTimeout' = FALSE
    /\ collectionTimeout' = FALSE
    /\ outcome' = Reject(outcome, "connectError")
    /\ UNCHANGED << session, audioChunks, totalByteLength, sessionClosed,
                    hasReceivedAudio, closeCalls, delivered >>
    /\ UNCHANGED nonGenVars
    /\ Hist("connectFailed")

\* geminiService.ts:117-118  one of the two awaited set-up calls returned
SetupStepResolved ==
    /\ genPc = "setConfig"
    /\ genPc' = "setPrompts"
    /\ UNCHANGED << session, audioChunks, totalByteLength, collectionTimeout,
                    initialTimeout, sessionClosed, hasReceivedAudio, outcome,
                    link, closeCalls, delivered >>
    /\ UNCHANGED nonGenVars
    /\ Hist("configured")

\* geminiService.ts:118-127  the prompts are set: play, and the timer for
\* the first chunk is armed
PlayIssued ==
    /\ genPc = "setPrompts"
    /\ genPc' = "armed"
    /\ initialTimeout' = TRUE
    /\ UNCHANGED << session, audioChunks, totalByteLength, collectionTimeout,
                    sessionClosed, hasReceivedAudio, outcome, link, closeCalls,
                    delivered >>
    /\ UNCHANGED nonGenVars
    /\ Hist("play")

\* geminiService.ts:128-132  a set-up call failed: the inner catch
SetupFailed ==
    /\ genPc \in {"setConfig", "setPrompts"}
    /\ genPc' = "done"
    /\ InstallGen(cleanupAndResolve(
           [GenState EXCEPT !.outcome = Reject(@, "setupError")],
           session, audioChunks))
    /\ UNCHANGED << session, audioChunks, totalByteLength, hasReceivedAudio,
                    link, delivered >>
    /\ UNCHANGED nonGenVars
    /\ Hist("setupFailed")

\* geminiService.ts:86-92  the chunks of a message that carry data
RECURSIVE WithData(_)
WithData(chunks) ==
    IF chunks = << >> THEN << >>
    ELSE IF Head(chunks) = NoData THEN WithData(Tail(chunks))
    ELSE << Head(chunks) >> \o WithData(Tail(chunks))

\* geminiService.ts:76-97  onmessage
OnMessage ==
    /\ link = "open"
    /\ delivered < MaxMessages
    /\ delivered' = delivered + 1
    /\ \E m \in Messages :
        IF m.hasChunks
        THEN /\ hasReceivedAudio' = TRUE
             /\ initialTimeout' = (initialTimeout /\ hasReceivedAudio)
             /\ collectionTimeout' = (collectionTimeout \/ ~hasReceivedAudio)
             /\ audioChunks' = audioChunks \o WithData(m.chunks)
             /\ totalByteLength' = totalByteLength + Len(Concat(WithData(m.chunks)))
        ELSE UNCHANGED << hasReceivedAudio, initialTimeout, collectionTimeout,
                          audioChunks, totalByteLength >>
    /\ UNCHANGED << genPc, session, sessionClosed, outcome, link, closeCalls >>
    /\ UNCHANGED nonGenVars
    /\ Hist("onmessage")

\* geminiService.ts:98-102  onerror: reject, then cleanupAndResolve
OnErrorHandler(g, hasSession, chunks) ==
    cleanupAndResolve([g EXCEPT !.outcome = Reject(@, "sessionError")],
                      hasSession, chunks)

OnError ==
    /\ link = "open"
    /\ InstallGen(OnErrorHandler(GenState, session, audioChunks))
    /\ UNCHANGED << genPc, session, audioChunks, totalByteLength,
                    hasReceivedAudio, link, delivered >>
    /\ UNCHANGED nonGenVars
    /\ Hist("onerror")

\* geminiService.ts:103-110  onclose, from the server or after session.close()
OnCloseHandler(g, hasSession, chunks) ==
    IF ~g.sessionClosed THEN cleanupAndResolve(g, hasSession, chunks) ELSE g

OnClose ==
    /\ link = "open"
    /\ link' = "closed"
    /\ InstallGen(OnCloseHandler(GenState, session, audioChunks))
    /\ UNCHANGED << genPc, session, audioChunks, totalByteLength,
                    hasReceivedAudio, delivered >>
    /\ UNCHANGED nonGenVars
    /\ Hist("onclose")

\* geminiService.ts:122-127  the timer for the first chunk fires
InitialTimeoutFired ==
    /\ initialTimeout
    /\ InstallGen(
           IF ~hasReceivedAudio
           THEN cleanupAndResolve([GenState EXCEPT !.initialTimeout = FALSE],
                                  session, audioChunks)
           ELSE [GenState EXCEPT !.initialTimeout = FALSE])
    /\ UNCHANGED << genPc, session, audioChunks, totalByteLength,
                    hasReceivedAudio, link, delivered >>
    /\ UNCHANGED nonGenVars
    /\ Hist("initialTimeout")

\* geminiService.ts:83  the collection timer fires
CollectionTimeoutFired ==
    /\ collectionTimeout
    /\ InstallGen(cleanupAndResolve([GenState EXCEPT !.collectionTimeout = FALSE],
                                    session, audioChunks))
    /\ UNCHANGED << genPc, session, audioChunks, totalByteLength,
                    hasReceivedAudio, link, delivered >>
    /\ UNCHANGED nonGenVars
    /\ Hist("collectionTimeout")

------------------------------------------------------------------------------
(* handleGenerate with its call of generateAudio (App.tsx:169-195)          *)

\* App.tsx:169-186  handleGenerate up to its await, generateAudio called
HandleGenerateAwait == GenerateBody /\ CallBody

\* audioUtils.ts:19  the 16-bit little-endian value at index k (from 0)
Int16At(bytes, k) ==
    LET u == bytes[2 * k + 1] + 256 * bytes[2 * k + 2]
    IN  IF u >= 32768 THEN u - 65536 ELSE u

\* audioUtils.ts:19-21  the frames createBuffer is asked for: the 16-bit
\* values, halved, the fraction dropped
FrameCount(bytes) == (Len(bytes) \div 2) \div 2

\* audioUtils.ts:2-33  decodeBase64 gives back the bytes that were encoded
\* (geminiService.ts:60-65); decodePCMAudioData de-interleaves them into two
\* channels, a sample kept as its 16-bit value (the code divides by 32768)
DecodePCM(bytes) ==
    [c \in 1..2 |-> [i \in 1..FrameCount(bytes) |->
                        Int16At(bytes, (i - 1) * 2 + (c - 1))]]

\* App.tsx:186-193  the await of generateAudio is over: the audio is decoded
\* and kept, or the message of what was thrown is shown (createBuffer throws
\* for a length of 0)
GenerateSettled ==
    /\ mounted
    /\ isLoading
    /\ outcome.kind /= "pending"
    /\ isLoading' = FALSE
    /\ IF outcome.kind = "resolved" /\ FrameCount(outcome.audio) > 0
       THEN /\ generatedAudioBuffer' = DecodePCM(outcome.audio)
            /\ selector' = ShowBuffer(selector)
            /\ error' = error
       ELSE /\ generatedAudioBuffer' = generatedAudioBuffer
            /\ selector' = selector
            /\ error' = IF outcome.kind = "resolved" THEN "NotSupportedError"
                         ELSE outcome.reason
    /\ Hist("settled")
    /\ UNCHANGED << bpm, pattern, selectedFx, selection, sequencerSample,
                    reversedSequencerSample, audioContext, now >>
    /\ UNCHANGED seqVars
    /\ UNCHANGED genVars

------------------------------------------------------------------------------
(* The specification of the application *)

Init ==
    /\ bpm = InitialBpm
    /\ pattern = EmptyPattern
    /\ selectedFx = "normal"
    /\ isLoading = FALSE
    /\ error = "none"
    /\ generatedAudioBuffer = NoBuffer
    /\ selection = NoSelection
    /\ sequencerSample = NoBuffer
    /\ reversedSequencerSample = NoBuffer
    /\ audioContext = FALSE
    /\ mounted = TRUE
    /\ isPlaying = FALSE
    /\ currentStep = -1
    /\ timerRef = 0
    /\ nextStepTimeRef = 0
    /\ stepRef = 0
    /\ impulseResponseRef = FALSE
    /\ limiterRef = FALSE
    /\ now = 0
    /\ timers = {}
    /\ events = {}
    /\ built = [limiter |-> 0, impulse |-> 0]
    /\ download = NoFile
    /\ selector = NoDrag
    /\ batch = << >>
    /\ run = NoRun
    /\ lastEvent = "init"
    /\ tgl = NoToggle
    /\ genPc = "idle"
    /\ session = FALSE
    /\ audioChunks = << >>
    /\ totalByteLength = 0
    /\ collectionTimeout = FALSE
    /\ initialTimeout = FALSE
    /\ sessionClosed = FALSE
    /\ hasReceivedAudio = FALSE
    /\ outcome = Pending
    /\ link = "idle"
    /\ closeCalls = 0
    /\ delivered = 0

\* Spec: every handler, the scheduler's polls and the clock, interleaved
Next ==
    \/ HandleToggleStep(ToggleIdx)
    \/ HandleRandomizePattern(RandomDraws)
    \/ SetBpm(Tempos)
    \/ HandleGenerate
    \/ GenerateResolved
    \/ GenerateRejected
    \/ OnSelect(Selections)
    \/ HandleLoadToSequencer
    \/ HandlePlayToggle
    \/ Poll
    \/ Unmount
    \/ Tick(PollDelay, MaxTicks)

Spec == Init /\ [][Next]_vars

\* EditSpec: the handlers over richer inputs, the clock standing still
NextEdit ==
    \/ HandleToggleStep(EditToggleIdx)
    \/ HandleRandomizePattern(EditRandomDraws)
    \/ SetSelectedFx(EditFxChoices)
    \/ HandleGenerate
    \/ GenerateResolved
    \/ OnSelect(EditSelections)
    \/ HandleLoadToSequencer

EditSpec == Init /\ [][NextEdit]_vars

\* RunSpec: long playback runs; pattern, tempo and sample change only while
\* playback is stopped, and one loop is generated
NextRun ==
    \/ ~isPlaying /\ HandleToggleStep(ToggleIdx)
    \/ ~isPlaying /\ HandleRandomizePattern(RandomDraws)
    \/ ~isPlaying /\ SetBpm(Tempos)
    \/ ~isPlaying /\ generatedAudioBuffer = NoBuffer /\ HandleGenerate
    \/ GenerateResolved
    \/ OnSelect(Selections)
    \/ ~isPlaying /\ HandleLoadToSequencer
    \/ HandlePlayToggle
    \/ Poll
    \/ Tick(LongStep, LongTicks)

RunSpec == Init /\ [][NextRun]_vars

\* FxSpec: every effect of the picker on the first step, played at both
\* tempos; pattern, tempo and sample change only while playback is stopped
\* and the audio context holds nothing scheduled, the effect is picked while
\* the pattern is empty
NextFx ==
    \/ pattern = EmptyPattern /\ SetSelectedFx(FxSet)
    \/ ~isPlaying /\ events = {} /\ HandleToggleStep(FxToggleIdx)
    \/ ~isPlaying /\ events = {} /\ SetBpm(Tempos)
    \/ generatedAudioBuffer = NoBuffer /\ HandleGenerate
    \/ GenerateResolved
    \/ OnSelect(Selections)
    \/ ~isPlaying /\ HandleLoadToSequencer
    \/ HandlePlayToggle
    \/ Poll
    \/ Tick(PollDelay, MaxTicks)

FxSpec == Init /\ [][NextFx]_vars

\* ExportSpec: patterns over two slots and three effects at three tempos,
\* exported; playback stays stopped and one loop is generated
NextExport ==
    \/ SetSelectedFx(EditFxChoices)
    \/ HandleToggleStep(ExportToggleIdx)
    \/ SetBpm(ExportTempos)
    \/ generatedAudioBuffer = NoBuffer /\ HandleGenerate
    \/ GenerateResolved
    \/ OnSelect(Selections)
    \/ HandleLoadToSequencer
    \/ ExportSequence

ExportSpec == Init /\ [][NextExport]_vars

------------------------------------------------------------------------------
(* exportToWav (audioUtils.ts:41-86): the 16-bit samples written for a      *)
(* buffer. A sample value is kept as its numerator over SampleDen, so that  *)
(* every value is a 32-bit float exactly                                    *)

\* how far the sample values tried reach from -1, from 0 and from 1
WavWindow == 20

\* audioUtils.ts:78  0x8000, the scale of a negative sample, and the divisor
\* of decodePCMAudioData (audioUtils.ts:29)
Int16Scale == 32768

\* audioUtils.ts:78  0x7FFF, the scale of a sample that is not negative
Int16Max == 32767

SampleDen == 2 * Int16Scale

\* the sample values tried: around -1, 0 and 1, and a little outside [-1, 1]
WavNums ==
    ((-SampleDen - 2)..(-SampleDen + WavWindow))
        \cup ((-WavWindow)..WavWindow)
        \cup ((SampleDen - WavWindow)..(SampleDen + 2))

\* rendered buffers of one frame, mono and stereo
WavBuffers ==
    {<< <<n>> >> : n \in WavNums} \cup {<< <<n>>, <<-n>> >> : n \in WavNums}

\* audioUtils.ts:77  Math.max(-1, Math.min(1, sample))
Clamp(n) == Max(-SampleDen, Min(SampleDen, n))

\* audioUtils.ts:79  setInt16 of a number: the fraction is dropped, towards 0
TruncDiv(a, b) ==
    IF a >= 0 \/ a % b = 0 THEN a \div b ELSE (a \div b) + 1

\* audioUtils.ts:79  setInt16 keeps the low 16 bits, read as signed
ToInt16(v) == ((v + Int16Scale) % (2 * Int16Scale)) - Int16Scale

\* audioUtils.ts:78  sample < 0 ? sample * 0x8000 : sample * 0x7FFF
ScaleSample(n) ==
    IF n < 0 THEN ToInt16(TruncDiv(n * Int16Scale, SampleDen))
             ELSE ToInt16(TruncDiv(n * Int16Max, SampleDen))

\* audioUtils.ts:71-84  the data chunk: frame after frame, channel after
\* channel
WavData(buf) ==
    LET chans == Len(buf)
    IN  [k \in 1..(chans * Len(buf[1])) |->
            ScaleSample(Clamp(buf[((k - 1) % chans) + 1][((k - 1) \div chans) + 1]))]

\* exportToWav applied to a rendered buffer: the file holds the samples
ExportToWav(Bufs) ==
    /\ mounted
    /\ \E buf \in Bufs : download' = [rendered |-> buf, data |-> WavData(buf)]
    /\ lastEvent' = "wav"
    /\ tgl' = NoToggle
    /\ UNCHANGED << appVars, seqVars, now, selector, genVars >>

\* WavSpec: exportToWav over the rendered buffers
NextWav == ExportToWav(WavBuffers)

WavSpec == Init /\ [][NextWav]_vars

\* SelectSpec: ranges dragged on the waveform and loaded
NextSelect ==
    \/ generatedAudioBuffer = NoBuffer /\ HandleGenerate
    \/ GenerateResolved
    \/ HandleMouseDown(PixelChoices)
    \/ HandleMouseMove(PixelChoices)
    \/ HandleMouseUp
    \/ HandleLoadToSequencer
    \/ HandleToggleStep(FxToggleIdx)

SelectSpec == Init /\ [][NextSelect]_vars

\* LoadingSpec: generations from the button to the end of handleGenerate,
\* with the session's callbacks and timers in every order and the step
\* buttons, the selector and the load button in use
NextLoading ==
    \/ HandleGenerateAwait
    \/ ConnectResolved
    \/ ConnectRejected
    \/ SetupStepResolved
    \/ PlayIssued
    \/ SetupFailed
    \/ OnMessage
    \/ OnError
    \/ OnClose
    \/ InitialTimeoutFired
    \/ CollectionTimeoutFired
    \/ GenerateSettled
    \/ HandleToggleStep(FxToggleIdx)
    \/ OnSelect(LoadingSelections)
    \/ HandleLoadToSequencer

LoadingSpec == Init /\ [][NextLoading]_vars

\* GenSpec: one call of generateAudio against every order of the session's
\* callbacks, the set-up results and the two timers
NextGen ==
    \/ CallGenerateAudio
    \/ ConnectResolved
    \/ ConnectRejected
    \/ SetupStepResolved
    \/ PlayIssued
    \/ SetupFailed
    \/ OnMessage
    \/ OnError
    \/ OnClose
    \/ InitialTimeoutFired
    \/ CollectionTimeoutFired

GenSpec == Init /\ [][NextGen]_vars

\* GenLiveSpec: GenSpec with window.setTimeout's guarantee that an armed
\* timer that is not cleared runs its callback (geminiService.ts:83, 122)
GenLiveSpec ==
    /\ GenSpec
    /\ WF_vars(InitialTimeoutFired)
    /\ WF_vars(CollectionTimeoutFired)

------------------------------------------------------------------------------
(* Properties *)

\* C1: within one playback run, whatever handlers interleave with the polls,
\* no step is fired with a trigger time earlier than that of a step fired
\* earlier in the run.
C1_FiredTimesNeverGoBack ==
    \A i \in 1..Len(batch) :
        batch[i].fired =>
            batch[i].time >= MaxFired(SubSeq(batch, 1, i - 1), run.firedMax)

\* C2: while isPlaying is true, nextStepTimeRef never decreases from one state
\* to the next, whatever the operation.
C2_NextStepTimeNeverDecreases ==
    [][(isPlaying /\ isPlaying') => nextStepTimeRef' >= nextStepTimeRef]_vars

\* C3: in a run whose pattern, tempo and sample do not change, however late a
\* poll runs, the steps are processed in the order 0, 1, ..., 15, 0, ..., the
\* k-th at trigger time anchor + k * stepDuration, each while its trigger time
\* is below clock + 0.1 s, and a scheduler call leaves no step behind that is
\* due within the look-ahead.
C3_NoStepMissed ==
    (isPlaying /\ run.clean) =>
        /\ \A i \in 1..Len(batch) :
              LET k == run.count + i - 1
              IN  /\ batch[i].step = k % NumSteps
                  /\ batch[i].time = run.anchor + k * StepDuration(bpm)
                  /\ batch[i].time < batch[i].at + Lookahead
        /\ stepRef = (run.count + Len(batch)) % NumSteps
        /\ nextStepTimeRef = run.anchor + (run.count + Len(batch)) * StepDuration(bpm)
        /\ batch /= << >> => nextStepTimeRef >= batch[1].at + Lookahead

\* C3 witness: a late poll of an unchanged run processes several steps at
\* once, one of them overdue, and wraps from step 15 to step 0.
C3_Witness ==
    /\ isPlaying /\ run.clean /\ lastEvent = "poll"
    /\ \E i \in 1..Len(batch) : run.count + i - 1 = NumSteps /\ batch[i].step = 0
    /\ \E j \in 1..Len(batch) : batch[j].time < batch[j].at

\* C6 as stated: for every pattern, index and effect, two toggles of the same
\* slot with the same effect leave the slot as it was.
C6_ToggleTwiceRestoresSlot ==
    tgl.n = 2 => pattern[tgl.index + 1] = tgl.orig

\* C6 amended: two toggles of the same slot with the same effect leave the
\* slot as it was when it was empty or held that effect; a slot that held
\* another effect is left empty.
C6_ToggleTwiceRestoresOwnSlot ==
    tgl.n = 2 =>
        IF tgl.orig \in {NullSlot, tgl.fx}
        THEN pattern[tgl.index + 1] = tgl.orig
        ELSE pattern[tgl.index + 1] = NullSlot

\* C6 witness: a slot holding the selected effect has been toggled twice.
C6_Witness ==
    tgl.n = 2 /\ tgl.orig = tgl.fx /\ pattern[tgl.index + 1] = tgl.fx

\* C7: the pattern handleRandomizePattern installs has 16 slots, one of them
\* not empty, differs from the pattern before in a slot, and holds only
\* effects of FX_CONFIG or empty slots.
C7_RandomizeInstallsNewNonEmptyPattern ==
    [][lastEvent' = "randomize" =>
          /\ Len(pattern') = NumSteps
          /\ \E i \in 1..NumSteps : pattern'[i] /= NullSlot
          /\ \E i \in 1..NumSteps : pattern'[i] /= pattern[i]
          /\ \A i \in 1..NumSteps : pattern'[i] \in FxSet \cup {NullSlot}]_vars

\* C7 witness: a randomize has installed a pattern with two effects.
C7_Witness ==
    /\ lastEvent = "randomize"
    /\ pattern[1] /= NullSlot /\ pattern[2] /= NullSlot

\* C8: a play toggle while stopped and without a sample changes nothing:
\* isPlaying stays false, no timer is set, step counter, next-step time and
\* current step stay, and no step is processed (no audio node is made).
C8_PlayWithoutSampleIsNoOp ==
    [][(lastEvent' = "playToggle" /\ ~isPlaying /\ sequencerSample = NoBuffer) =>
          UNCHANGED << isPlaying, timers, timerRef, stepRef, nextStepTimeRef,
                       currentStep, batch, run >>]_vars

\* C8 witness: the play toggle was clicked while stopped with the sample
\* cleared after an earlier run.
C8_Witness ==
    /\ lastEvent = "playToggle" /\ ~isPlaying /\ sequencerSample = NoBuffer
    /\ stepRef > 0

\* C9: every start of playback sets the step counter to 0 and the next-step
\* time to the clock before a step is processed: the first step of the run is
\* index 0, at the clock's time at the start, wherever the run before stopped.
C9_RunStartsAtStepZero ==
    (isPlaying /\ run.clean /\ run.count = 0 /\ lastEvent = "playToggle") =>
        /\ batch /= << >>
        /\ batch[1].step = 0
        /\ batch[1].time = now
        /\ batch[1].at = now
        /\ batch[1].fired = (pattern[1] /= NullSlot)

\* C9 witness: a run starts after the run before it stopped at another step.
C9_Witness ==
    /\ isPlaying /\ run.clean /\ run.count = 0 /\ lastEvent = "playToggle"
    /\ run.from /= 0 /\ now > 0
    /\ batch[1].fired

\* C10: after a stop, and after the component is discarded, no poll is
\* pending; after a stop the current step shown is -1; and while stopped no
\* step is processed.
C10_StoppedIsQuiet ==
    /\ [](~isPlaying => (timers = {} /\ currentStep = -1 /\ batch = << >>))
    /\ [](~mounted => timers = {})
    /\ [][(~isPlaying /\ ~isPlaying') =>
             UNCHANGED << batch, stepRef, nextStepTimeRef >>]_vars

\* C10 witness: playback that had processed steps has been stopped.
C10_Witness ==
    /\ ~isPlaying /\ lastEvent = "playToggle" /\ sequencerSample /= NoBuffer
    /\ stepRef > 0 /\ now > 0

\* C4: whenever a session was connected and the call has cleaned up,
\* session.close() has been called exactly once, in every order of timers,
\* callbacks and set-up results.
C4_SessionClosedExactlyOnce ==
    /\ closeCalls <= 1
    /\ (session /\ sessionClosed) => closeCalls = 1

\* C5: when chunks have been collected and the session then closes or raises
\* an error, the call resolves with the chunks' concatenation.
C5_PartialAudioResolves ==
    [][(lastEvent' \in {"onerror", "onclose"} /\ outcome.kind = "pending"
            /\ Len(audioChunks) >= 1) =>
          outcome' = [kind |-> "resolved", reason |-> "none",
                      audio |-> Concat(audioChunks)]]_vars


\* C11: stopping playback leaves every audio event already scheduled (the
\* fired steps with their sources, oscillators, automation and start times)
\* as it is; the only thing the stop removes is the pending scheduler poll.
C11_StopKeepsScheduledEvents ==
    [][(lastEvent' = "playToggle" /\ isPlaying /\ ~isPlaying') =>
          /\ events' = events
          /\ timers' = { t \in timers : t.id /= timerRef }
          /\ timers' = {}]_vars

\* a stop that found steps scheduled ahead of the clock, and a pending poll
C11_Witness ==
    /\ lastEvent = "playToggle" /\ ~isPlaying /\ sequencerSample /= NoBuffer
    /\ \E f \in events : f.time > now

\* C12: a fired step keeps the effect, sample and trigger time read when it
\* was fired: no later handler (toggle, randomize, tempo, sample, generation,
\* play or stop, poll) changes or removes a scheduled event, and what a
\* handler adds records the pattern, sample and tempo of its own render.
C12_ScheduledEventsAreFrozen ==
    [][/\ \A f \in events : StillScheduled(f, now') => f \in events'
       /\ \A f \in events' \ events :
             /\ f.fx = pattern'[f.step + 1]
             /\ f.sample = sequencerSample'
             /\ f.reversed = reversedSequencerSample'
             /\ f.bpm = bpm']_vars

\* a pattern edit during playback that left the step fired before it in place
C12_Witness ==
    /\ lastEvent = "toggle" /\ isPlaying
    /\ \E f \in events : f.fx /= pattern[f.step + 1] /\ f.time >= now

\* the source nodes of a graph: the primary source and the repeated copies
SourceNodes(g) == { n \in g.nodes : n = "source" \/ \E i \in 1..Len(CopyNames) : n = CopyNames[i] }

\* the number of copies a glitch or stutter step repeats
CopiesOf(fx) == IF fx = "glitch" THEN GlitchNumStutters ELSE StutterNumRepeats

\* C13: for every firing of a glitch or a stutter step the primary source is
\* never started and has no path to the master bus; the sources connected to
\* the bus and started are exactly the repeated copies, 3 for glitch and 4
\* for stutter.
C13_GlitchStutterSuppressDryPath ==
    \A f \in events : \A panner \in BOOLEAN :
        f.fx \in {"glitch", "stutter"} =>
            LET g == GraphOf(f, panner)
                copies == { CopyNames[i] : i \in 1..CopiesOf(f.fx) }
            IN  /\ "source" \in g.nodes
                /\ \A st \in g.starts : st.node /= "source"
                /\ ~HasPath(g, "source", "limiter")
                /\ { st.node : st \in g.starts } = copies
                /\ { n \in SourceNodes(g) : HasPath(g, n, "limiter") } = copies
                /\ Cardinality(copies) = (IF f.fx = "glitch" THEN 3 ELSE 4)
                /\ Cardinality(g.starts) = Cardinality(copies)

\* a glitch step fired during playback
C13_Witness ==
    isPlaying /\ \E f \in events : f.fx = "glitch" /\ f.limiter /= 0

C19_StutterSchedulesFourRepeats ==
    \A f \in events : \A panner \in BOOLEAN :
        f.fx = "stutter" =>
            LET starts == GraphOf(f, panner).starts
            IN  /\ Cardinality(starts) = 4
                /\ \A i \in 0..3 : \E st \in starts :
                      (st.when - f.time) * 8 * f.bpm = i * 180000
                /\ \A st \in starts :
                      /\ st.offset = 0
                      /\ st.dur * 8 * f.bpm = 180000
                      /\ st.buffer = f.sample

\* a stutter step fired at the fast tempo
C19_Witness ==
    isPlaying /\ \E f \in events : f.fx = "stutter" /\ f.bpm = 300

\* C15: a step the scheduler processes without a sample, or with an empty
\* slot, creates no audio node, and is followed like any other: the next
\* step is due one step duration later, the step is published as current,
\* and the counter moves on by 1 modulo 16.
C15_SilentStepStillAdvances ==
    [][/\ \A f \in events' \ events : \E i \in 1..Len(batch') :
             /\ batch'[i].fired
             /\ batch'[i].step = f.step /\ batch'[i].time = f.time
       /\ \A i \in 1..Len(batch') :
             (batch' /= batch /\ ~batch'[i].fired) =>
                 /\ batch'[i].fx = NullSlot /\ batch'[i].buffer = NoBuffer
                 /\ IF i < Len(batch')
                    THEN /\ batch'[i + 1].time = batch'[i].time + StepDuration(bpm')
                         /\ batch'[i + 1].step = (batch'[i].step + 1) % NumSteps
                    ELSE /\ nextStepTimeRef' = batch'[i].time + StepDuration(bpm')
                         /\ currentStep' = batch'[i].step
                         /\ stepRef' = (batch'[i].step + 1) % NumSteps]_vars

\* a poll that processed a step after a new generation took the sample away
C15_Witness ==
    /\ lastEvent = "poll" /\ isPlaying /\ sequencerSample = NoBuffer
    /\ batch /= << >> /\ pattern = EmptyPattern /\ stepRef > 0

\* C16: whatever renders, starts, stops and firings happen, the limiter and
\* the impulse response are each created at most once, and every fired step
\* is routed into that one limiter.
C16_MasterBusBuiltOnce ==
    /\ built.limiter <= 1 /\ built.impulse <= 1
    /\ limiterRef => built.limiter = 1
    /\ impulseResponseRef => built.impulse = 1
    /\ \A f \in events : f.limiter = 1 /\ f.impulse

\* a later start of playback, after a run that had moved the counter, whose
\* first step is fired into the limiter built with the context
C16_Witness ==
    /\ lastEvent = "playToggle" /\ isPlaying /\ run.from > 0 /\ now > 0
    /\ built.limiter = 1 /\ built.impulse = 1
    /\ \E f \in events : f.time = now /\ f.limiter = 1

\* C17: for every pattern and tempo exportSequence schedules exactly one
\* source for each slot i in 0..15 that holds an effect and none for an
\* empty slot, started at i times the step duration (a quarter of 60/tempo;
\* 60 seconds are 180000 units of the clock) and connected straight to the
\* offline destination; its buffer is the reversed sample exactly when the
\* slot holds 'reverse' and a reversed sample exists, else the forward one.
C17_ExportSchedulesOneSourcePerStep ==
    lastEvent = "export" =>
        /\ \A i \in 0..(NumSteps - 1) :
              LET S == { src \in download.sources : src.slot = i }
              IN  IF pattern[i + 1] = NullSlot THEN S = {}
                  ELSE /\ Cardinality(S) = 1
                       /\ \A src \in S :
                             /\ src.time * 4 * bpm = i * 180000
                             /\ src.dest = "destination"
                             /\ src.buffer =
                                  IF pattern[i + 1] = "reverse"
                                     /\ reversedSequencerSample /= NoBuffer
                                  THEN reversedSequencerSample
                                  ELSE sequencerSample
        /\ \A src \in download.sources : src.slot \in 0..(NumSteps - 1)

\* an export of a pattern with a reversed step, a forward step and empty slots
C17_Witness ==
    /\ lastEvent = "export" /\ bpm = 120
    /\ pattern[1] = "reverse" /\ pattern[9] = "normal" /\ pattern[2] = NullSlot
    /\ Cardinality(download.sources) = 2
    /\ reversedSequencerSample /= sequencerSample

\* C18: an exported step contributes sound only within its own step-long
\* window, so that the render (16 step durations long) is silent outside the
\* windows of the slots that hold an effect; with a 2-second sample at tempo
\* 120 and 'normal' on steps 0 and 8 the sample sounds for 0.125 s after
\* t = 0 and after t = 1.0 s only.
C18_ExportedStepStaysInItsWindow ==
    lastEvent = "export" =>
        /\ download.duration * 4 * bpm = NumSteps * 180000
        /\ \A src \in download.sources :
              AudibleUntil(download, src) * 4 * bpm
                  <= (src.slot + 1) * 180000

\* a session error, a close or the initial timeout running its handler while
\* no audio chunk has arrived
FailsWithoutAudio ==
    /\ audioChunks = << >>
    /\ \/ lastEvent' \in {"onerror", "onclose"}
       \/ lastEvent' = "initialTimeout" /\ ~hasReceivedAudio

\* what the end of a failed handleGenerate leaves, the pattern apart
FailureShown ==
    /\ error' /= "none" /\ error' /= ""
    /\ ~isLoading'
    /\ generatedAudioBuffer' = NoBuffer
    /\ sequencerSample' = NoBuffer
    /\ reversedSequencerSample' = NoBuffer
    /\ selection' = NoSelection

\* C20 as stated: when the backend errors, closes or the initial timeout
\* fires before any audio chunk has arrived, generateAudio rejects, and
\* handleGenerate finishes with a non-empty error message, isLoading false,
\* no generated buffer, no sequencer sample, no reversed sample, no
\* selection and an all-empty pattern.
C20_FailedGenerationLeavesNothing ==
    [][/\ FailsWithoutAudio => outcome'.kind = "rejected"
       /\ (lastEvent' = "settled" /\ outcome.kind = "rejected") =>
             (FailureShown /\ pattern' = EmptyPattern)]_vars

\* C20, amended: the same, except that the end of handleGenerate leaves the
\* pattern as it finds it: the start of the generation made it all-empty,
\* and it holds the steps toggled since then.
C20_FailedGenerationKeepsToggledSteps ==
    [][/\ FailsWithoutAudio => outcome'.kind = "rejected"
       /\ lastEvent' = "generate" => pattern' = EmptyPattern
       /\ (lastEvent' = "settled" /\ outcome.kind = "rejected") =>
             (FailureShown /\ pattern' = pattern)]_vars

\* a generation that failed on the initial timeout, a step toggled meanwhile
C20_Witness ==
    /\ lastEvent = "settled" /\ outcome.kind = "rejected"
    /\ outcome.reason = "noAudio" /\ ~hasReceivedAudio /\ genPc = "armed"
    /\ error = "noAudio" /\ ~isLoading /\ pattern /= EmptyPattern

\* C21: in every reachable state the pattern has exactly 16 slots and the
\* step counter is in 0..15; toggle, randomize and the reset of a new
\* generation keep the length, a toggle changes no slot but the one at its
\* index, and the scheduler moves the counter on as (counter + 1) mod 16.
C21_SixteenSlotsCounterWraps ==
    /\ [](Len(pattern) = NumSteps /\ DOMAIN pattern = 1..16 /\ stepRef \in 0..15)
    /\ [][lastEvent' = "toggle" =>
             \A i \in 1..16 : i /= tgl'.index + 1 => pattern'[i] = pattern[i]]_vars
    /\ [](\A i \in 1..Len(batch) :
             /\ batch[i].step \in 0..15
             /\ IF i < Len(batch)
                THEN batch[i + 1].step = (batch[i].step + 1) % 16
                ELSE stepRef = (batch[i].step + 1) % 16)

\* a run that wrapped from step 15 to step 0, after a randomize and a toggle
C21_Witness ==
    /\ isPlaying /\ lastEvent = "poll" /\ stepRef = 0 /\ currentStep = 15
    /\ run.count + Len(batch) = NumSteps
    /\ pattern[1] /= NullSlot /\ pattern[2] /= NullSlot

\* C22: the forward and the reversed sequencer sample are both absent or both
\* present, and when present they have the same number of channels and the
\* same number of frames; a load that cuts at least one frame sets both, a
\* new generation clears both.
C22_ForwardAndReversedTogether ==
    /\ []((sequencerSample = NoBuffer) <=> (reversedSequencerSample = NoBuffer))
    /\ [](sequencerSample /= NoBuffer =>
            /\ Len(reversedSequencerSample) = Len(sequencerSample)
            /\ \A c \in 1..Len(sequencerSample) :
                  /\ Len(sequencerSample[c]) >= 1
                  /\ Len(reversedSequencerSample[c]) = Len(sequencerSample[c]))
    /\ [][(lastEvent' = "load"
             /\ FrameOf(selection[2]) - FrameOf(selection[1]) > 0) =>
               (sequencerSample' /= NoBuffer /\ reversedSequencerSample' /= NoBuffer)]_vars
    /\ [][lastEvent' = "generate" =>
               (sequencerSample' = NoBuffer /\ reversedSequencerSample' = NoBuffer)]_vars

\* a two-frame, two-channel sample was just loaded over an earlier one
C22_Witness ==
    /\ lastEvent = "load"
    /\ sequencerSample /= NoBuffer /\ reversedSequencerSample /= NoBuffer
    /\ Len(sequencerSample) = 2 /\ Len(sequencerSample[1]) = 2
    /\ selection = <<2, 6>>

\* C26: for every loaded sub-range of at least one frame, frame k of channel
\* c of the reversed sample is frame n-1-k of channel c of the forward sample
\* (n frames, k from 0), the forward sample is the selected frames of the
\* generated buffer in their order, and reversing the reversed sample gives
\* the forward sample back.
C26_ReversedMirrorsForward ==
    /\ [](sequencerSample /= NoBuffer =>
            \A c \in 1..Len(sequencerSample) :
                LET n == Len(sequencerSample[c])
                IN  /\ \A k \in 0..(n - 1) :
                          reversedSequencerSample[c][k + 1] =
                              sequencerSample[c][(n - 1 - k) + 1]
                    /\ [k \in 1..n |-> reversedSequencerSample[c][n + 1 - k]] =
                          sequencerSample[c])
    /\ [][(lastEvent' = "load" /\ sequencerSample' /= sequencerSample) =>
             \A c \in 1..Len(generatedAudioBuffer) :
                 \A k \in 1..Len(sequencerSample'[c]) :
                     sequencerSample'[c][k] =
                         generatedAudioBuffer[c][FrameOf(selection[1]) + k]]_vars

\* frames 2 and 3 of both channels loaded, and their mirror beside them
C26_Witness ==
    /\ lastEvent = "load"
    /\ sequencerSample = << <<2, 3>>, <<5, 6>> >>
    /\ reversedSequencerSample = << <<3, 2>>, <<6, 5>> >>

\* C24: a drag that ends less than 2 canvas pixels wide is taken for no
\* selection: the selector drops its highlight, no error appears and no
\* sample changes, and a load-to-sequencer that follows it leaves the forward
\* and the reversed sample as they were, again without an error.
C24_TinyDragSelectsNothing ==
    /\ [][(/\ lastEvent' = "mouseup"
            /\ Max(selector.selection[1], selector.selection[2])
                 - Min(selector.selection[1], selector.selection[2]) < 2) =>
              /\ selector'.selection = << >>
              /\ error' = error
              /\ sequencerSample' = sequencerSample
              /\ reversedSequencerSample' = reversedSequencerSample]_vars
    /\ [][(/\ lastEvent = "mouseup" /\ selector.selection = << >>
            /\ lastEvent' = "load") =>
              /\ sequencerSample' = sequencerSample
              /\ reversedSequencerSample' = reversedSequencerSample
              /\ error' = error
              /\ selector'.selection = << >>]_vars

\* a sample is loaded, then a one-pixel drag and a load: the sample is kept
C24_Witness ==
    /\ lastEvent = "load"
    /\ selection = <<0, 0>>
    /\ selector = [isDragging |-> FALSE, selection |-> << >>, dragStart |-> 334]
    /\ sequencerSample = << <<2, 3>>, <<5, 6>> >>
    /\ error = "none"

\* C25: when the offline rendering of an export fails, the generic
\* could-not-render message is shown, no file is offered for download, and
\* the pattern, the tempo and both samples stay as they were.
C25_FailedRenderOnlyShowsMessage ==
    [][lastEvent' = "exportFailed" =>
          /\ error' = "Could not render the sequence. Please try again."
          /\ download' = NoFile
          /\ pattern' = pattern
          /\ bpm' = bpm
          /\ sequencerSample' = sequencerSample
          /\ reversedSequencerSample' = reversedSequencerSample]_vars

\* a failed export of a pattern with a reversed first step at 120 bpm
C25_Witness ==
    /\ lastEvent = "exportFailed"
    /\ error = "Could not render the sequence. Please try again."
    /\ download = NoFile
    /\ pattern[1] = "reverse" /\ bpm = 120
    /\ sequencerSample /= NoBuffer

\* C27: the graph of a pingPong step is cross-feeding: the left delay line
\* feeds the right one through the feedback gain of 0.5, the right delay line
\* has a path back into the left one, and both delay lines reach the merger,
\* which feeds the master bus.
C27_PingPongCrossFeeds ==
    \A f \in events : \A panner \in BOOLEAN :
        f.fx = "pingPong" =>
            LET g == GraphOf(f, panner)
            IN  /\ << "delayL", "feedback" >> \in g.edges
                /\ << "feedback", "delayR" >> \in g.edges
                /\ ParamValue("feedback", "gain", 1, 2) \in g.values
                /\ HasPath(g, "delayR", "delayL")
                /\ HasPath(g, "delayL", "merger")
                /\ HasPath(g, "delayR", "merger")
                /\ HasPath(g, "merger", "limiter")

\* C28: a glitch step fired at trigger time t schedules exactly 3 source
\* starts, the i-th (i = 0..2) at t + i * 50 ms through a gain of 1 - i/3,
\* playing 50 ms of the sample from buffer offset i * 50 ms; 50 ms are 150
\* units of the clock.
C28_GlitchSlicesAdvance ==
    \A f \in events : \A panner \in BOOLEAN :
        f.fx = "glitch" =>
            LET g == GraphOf(f, panner)
            IN  /\ Cardinality(g.starts) = 3
                /\ \A i \in 0..2 : \E st \in g.starts :
                      /\ st.when = f.time + i * 150
                      /\ st.dur = 150
                      /\ st.buffer = f.sample
                      /\ st.offset = i * 150
                      /\ \E gn \in g.nodes :
                            /\ << st.node, gn >> \in g.edges
                            /\ ParamValue(gn, "gain", 3 - i, 3) \in g.values

\* C23: every sample value s in [-1, 1], of every frame and channel, written
\* by exportToWav as a 16-bit integer e and decoded as d = e / 32768, has
\* |s - d| <= 1/32768; with s = n / SampleDen and u = SampleDen / 32768 that
\* is |n - e * u| <= u.
C23_WavRoundTripWithinOneStep ==
    lastEvent = "wav" =>
        LET buf == download.rendered
            chans == Len(buf)
        IN  \A c \in 1..chans : \A i \in 1..Len(buf[c]) :
                LET n == buf[c][i]
                    e == download.data[(i - 1) * chans + c]
                    u == SampleDen \div 32768
                    diff == n - e * u
                IN  (n >= -SampleDen /\ n <= SampleDen) =>
                        /\ diff <= u
                        /\ -diff <= u

\* C29: when the pattern, the tempo, the forward or the reversed sample
\* changes while playing, the pending poll is cancelled, the step counter is
\* set back to 0 and the next step's due time to the current audio clock:
\* the scheduler that runs at once processes step 0 at the clock's time and
\* the steps after it one step duration of the new tempo apart, and leaves
\* one poll pending, its own. (That such a restart may fire steps at trigger
\* times not later than those already scheduled is the case of the witness.)
C29_ChangeWhilePlayingRestarts ==
    [][(isPlaying /\ isPlaying' /\ CurrentClosure' /= CurrentClosure) =>
          /\ \A t \in timers : t \notin timers'
          /\ \A t \in timers' : t.c = CurrentClosure' /\ t.id = timerRef'
          /\ Cardinality(timers') = 1
          /\ batch' /= << >>
          /\ \A i \in 1..Len(batch') :
                /\ batch'[i].step = i - 1
                /\ batch'[i].time = now + (i - 1) * StepDuration(bpm')
          /\ stepRef' = Len(batch') % 16
          /\ nextStepTimeRef' = now + Len(batch') * StepDuration(bpm')
          /\ now' = now]_vars

\* a change while playing, after the clock moved: step 0 is fired again, at
\* a trigger time not later than one fired before the change
C29_Witness ==
    /\ isPlaying /\ now > 0
    /\ lastEvent \in {"toggle", "randomize", "setBpm", "load"}
    /\ run.anchor = now /\ ~run.clean
    /\ batch /= << >> /\ batch[1].step = 0 /\ batch[1].fired
    /\ batch[1].time <= run.firedMax

\* C30: in every reachable state at most one scheduler poll is pending, and a
\* pending poll is the one the timer ref names and holds the scheduler of the
\* current pattern, tempo and samples; so the steps a poll processes are
\* fired from the current pattern and sample, spaced by the current tempo.
C30_OnePollOfCurrentScheduler ==
    /\ [](/\ Cardinality(timers) <= 1
          /\ \A t \in timers : t.c = CurrentClosure /\ t.id = timerRef)
    /\ [][lastEvent' = "poll" =>
             \A i \in 1..Len(batch') :
                 LET fx == pattern[batch'[i].step + 1]
                 IN  /\ batch'[i].fired =
                            (fx /= NullSlot /\ sequencerSample /= NoBuffer)
                     /\ batch'[i].fired => batch'[i].fx = fx
                     /\ i > 1 => batch'[i].time =
                                     batch'[i - 1].time + StepDuration(bpm)]_vars

\* a poll pending after a poll of a run that a tempo change anchored again
C30_Witness ==
    /\ isPlaying /\ lastEvent = "poll" /\ now > 0
    /\ Cardinality(timers) = 1
    /\ ~run.clean /\ run.anchor > 0 /\ bpm = 300
    /\ batch /= << >> /\ batch[1].time > run.anchor

\* C31: whenever the sequencer is playing, a play toggle stops it: isPlaying
\* is never true in a state where handlePlayToggle returns without doing
\* anything (no sample loaded), also after a new generation cleared the
\* sample during playback.
C31_PlayingCanAlwaysStop ==
    /\ [](isPlaying => sequencerSample /= NoBuffer)
    /\ [][(lastEvent' = "playToggle" /\ isPlaying) => ~isPlaying']_vars

\* C32: when a poll runs at most 100 ms (300 units) of the audio clock after
\* the scheduler call before it, every step it fires has a trigger time not
\* earlier than the clock at that moment, and so has every step fired by the
\* scheduler call that starts or re-anchors a run: with all polls of a run
\* at most 100 ms apart no step is scheduled in the past.
C32_TimelyPollsFireNothingLate ==
    /\ [][(/\ lastEvent' = "poll"
            /\ \A t \in timers : now - (t.due - PollDelay) <= 300) =>
              \A i \in 1..Len(batch') :
                  batch'[i].fired => batch'[i].time >= now]_vars
    /\ [][(isPlaying' /\ lastEvent' \notin {"poll", "tick"}
            /\ batch' /= batch) =>
              \A i \in 1..Len(batch') :
                  batch'[i].fired => batch'[i].time >= now']_vars

\* a poll 100 ms after the start of a run at 90 bpm fires step 1, ahead of
\* the clock
C32_Witness ==
    /\ isPlaying /\ run.clean /\ lastEvent = "poll" /\ bpm = InitialBpm
    /\ now = run.anchor + 300
    /\ run.count = 1 /\ Len(batch) = 1
    /\ batch[1].step = 1 /\ batch[1].fired
    /\ batch[1].at = now /\ batch[1].time > now

\* C33: once play is issued and the initial timeout armed, the call of
\* generateAudio settles, given that armed timers fire; from then on what
\* settles a pending call is the initial timeout when no chunk list has
\* arrived, the collection timeout after the first one, or an error or a
\* close; a settled call keeps its outcome, and no message, with or without
\* audio, changes the outcome.
C33_ArmedCallSettlesOnce ==
    /\ (genPc = "armed") ~> (outcome.kind /= "pending")
    /\ [][(genPc = "armed" /\ outcome.kind = "pending"
             /\ outcome'.kind /= "pending") =>
               \/ lastEvent' = "initialTimeout" /\ ~hasReceivedAudio
               \/ lastEvent' = "collectionTimeout" /\ hasReceivedAudio
               \/ lastEvent' \in {"onerror", "onclose"}]_vars
    /\ [][outcome.kind /= "pending" => outcome' = outcome]_vars
    /\ [][lastEvent' = "onmessage" => outcome' = outcome]_vars

\* the call was rejected for want of audio by the initial timeout, and a
\* message with audio came after that
C33_Witness ==
    /\ genPc = "armed" /\ lastEvent = "onmessage"
    /\ outcome.kind = "rejected" /\ outcome.reason = "noAudio"
    /\ hasReceivedAudio /\ Len(audioChunks) >= 1
    /\ sessionClosed
====
